---- MODULE Spec2Model ----
(***************************************************************************)
(* Assignment Rule engine of frappe (automation/doctype/assignment_rule)   *)
(* and the doctype-map cache of frappe.cache_manager.                      *)
(*                                                                         *)
(* The ToDo store (frappe.desk.form.assign_to), the document store and the *)
(* job queue are collaborators whose code is not part of the sources; they *)
(* are modelled from the collaborator contracts of the specification.      *)
(***************************************************************************)
EXTENDS Integers, Sequences, FiniteSets, TLC

VARIABLES rules, todos, cache, flags, weekday, table_missing, queue, running, last

vars == <<rules, todos, cache, flags, weekday, table_missing, queue, running, last>>

-----------------------------------------------------------------------------
(* Bounds of the model                                                     *)

MaxTodos == 3
MaxRules == 2
MaxUsers == 3
MaxPicks == 5
MaxNames == 6
MaxQueue == 6
MaxDays == 3

-----------------------------------------------------------------------------
(* Values                                                                  *)

None == ""

RuleDoctype == "Assignment Rule"
DocTypes == {"Task", RuleDoctype}
TaskDocs == {"D1"}
MissingDocs == {"D0"}
RuleOrder == <<"R1", "R2", "R3">>
RuleNames == {RuleOrder[i] : i \in DOMAIN RuleOrder}
Users == {"a", "b"}
Candidates == {"a", "b", "c"}
Days == {"Monday", "Tuesday"}
CondExprs == {"", "True", "False", "1/0"}
Picks == {"first", "last"}

Range(s) == {s[i] : i \in DOMAIN s}

Min(S) == CHOOSE x \in S : \A y \in S : x <= y

Max(S) == CHOOSE x \in S : \A y \in S : x >= y

IndexError == "IndexError"

-----------------------------------------------------------------------------
(* Document store                                                          *)

\* frappe.get_doc(doctype, name) succeeds iff the document exists
doc_exists(rs, doctype, name) ==
    \/ doctype = "Task" /\ name \in TaskDocs
    \/ doctype = RuleDoctype /\ name \in DOMAIN rs

ExistingDocs(rs) ==
    {[doctype |-> "Task", name |-> n] : n \in TaskDocs}
        \cup {[doctype |-> RuleDoctype, name |-> n] : n \in DOMAIN rs}

\* frappe.get_all('Assignment Rule', filters, order_by = 'priority desc'):
\* names of the stored rules that match the filters, highest priority first,
\* equal priorities in the order of RuleOrder
RECURSIVE InsertByPriority(_, _, _)
InsertByPriority(rs, sorted, n) ==
    IF sorted = <<>> THEN <<n>>
    ELSE IF rs[Head(sorted)].priority >= rs[n].priority
         THEN <<Head(sorted)>> \o InsertByPriority(rs, Tail(sorted), n)
         ELSE <<n>> \o sorted

RECURSIVE SortByPriority(_, _, _)
SortByPriority(rs, names, i) ==
    IF i = 0 THEN <<>>
    ELSE LET rest == SortByPriority(rs, names, i - 1)
         IN IF names[i] \in DOMAIN rs THEN InsertByPriority(rs, rest, names[i]) ELSE rest

get_all_rules(rs, filters) ==
    LET matching == [n \in {m \in DOMAIN rs :
                              /\ rs[m].document_type = filters.document_type
                              /\ rs[m].disabled = filters.disabled} |-> rs[n]]
    IN SortByPriority(matching, RuleOrder, Len(RuleOrder))

-----------------------------------------------------------------------------
(* frappe.cache_manager                                                    *)

\* json.dumps / json.loads of the list of rows; the dumped value is a
\* non-empty string, hence truthy even for the empty list
json_dumps(items) == [json |-> items]

json_loads(s) == s.json

\* cache.hget(key, field) returns None for an absent field; every stored
\* value is a dumped string, so "if doctype_map" is true iff the field is set
hexists(c, field) == field \in DOMAIN c

hget(c, field) == c[field]

hset(c, field, value) == [f \in DOMAIN c \cup {field} |-> IF f = field THEN value ELSE c[f]]

hdel(c, field) == [f \in DOMAIN c \ {field} |-> c[f]]

\* the miss branch of get_doctype_map with the rows that frappe.get_all returned
get_doctype_map_build(c, doctype, items) ==
    [items |-> items, cache |-> hset(c, doctype, json_dumps(items)), queried |-> TRUE]

\* get_doctype_map that caches the empty list when the table is missing
get_doctype_map_CachesFailure(c, rs, missing, doctype, name, filters) ==
    IF hexists(c, name)
    THEN [items |-> json_loads(hget(c, name)), cache |-> c, queried |-> FALSE]
    ELSE IF missing
         THEN get_doctype_map_build(c, doctype, <<>>)
         ELSE get_doctype_map_build(c, doctype, get_all_rules(rs, filters))

get_doctype_map(c, rs, missing, doctype, name, filters) ==
    IF hexists(c, name)
    THEN [items |-> json_loads(hget(c, name)), cache |-> c, queried |-> FALSE]
    ELSE IF missing
         THEN [items |-> <<>>, cache |-> c, queried |-> TRUE]
         ELSE get_doctype_map_build(c, doctype, get_all_rules(rs, filters))

clear_doctype_map(c, doctype, name) == hdel(c, name)

-----------------------------------------------------------------------------
(* ToDo store: frappe.desk.form.assign_to and the ToDo queries             *)

OfDoc(t, doctype, name) == t.reference_type = doctype /\ t.reference_name = name

\* assign_to.add: a new Open work-item
assign_to_add(td, args) ==
    Append(td, [reference_type |-> args.doctype, reference_name |-> args.name,
                owner |-> args.assign_to, status |-> "Open",
                assignment_rule |-> args.assignment_rule])

\* assign_to.clear: every assignment of the document becomes Cancelled
assign_to_clear(td, doctype, name) ==
    [i \in DOMAIN td |->
        IF OfDoc(td[i], doctype, name) /\ td[i].status # "Cancelled"
        THEN [td[i] EXCEPT !.status = "Cancelled"] ELSE td[i]]

\* assign_to.close_all_assignments: every Open assignment of the document
\* becomes Closed
close_all_assignments(td, doctype, name) ==
    [i \in DOMAIN td |->
        IF OfDoc(td[i], doctype, name) /\ td[i].status = "Open"
        THEN [td[i] EXCEPT !.status = "Closed"] ELSE td[i]]

\* what clear and close_all_assignments return: whether the document had an
\* assignment to act on
has_assignments(td, doctype, name) ==
    \E i \in DOMAIN td : OfDoc(td[i], doctype, name) /\ td[i].status # "Cancelled"

\* limit = 5 of get_assignments
AssignmentLimit == 5

RECURSIVE FirstN(_, _)
FirstN(S, n) ==
    IF n = 0 \/ S = {} THEN <<>> ELSE <<Min(S)>> \o FirstN(S \ {Min(S)}, n - 1)

get_assignments(td, doc) ==
    LET found == {i \in DOMAIN td : OfDoc(td[i], doc.doctype, doc.name)
                                      /\ td[i].status # "Cancelled"}
        names == FirstN(found, AssignmentLimit)
    IN [k \in DOMAIN names |->
          [name |-> names[k], assignment_rule |-> td[names[k]].assignment_rule]]

\* frappe.db.count('ToDo', dict(reference_type, owner, status = "Open"))
db_count(td, reference_type, owner) ==
    Cardinality({i \in DOMAIN td : /\ td[i].reference_type = reference_type
                                   /\ td[i].owner = owner
                                   /\ td[i].status = "Open"})

\* db_exists_closed that finds every record that is not Open
db_exists_closed_NotOpen(td, doc, pick) ==
    LET found == {i \in DOMAIN td : OfDoc(td[i], doc.doctype, doc.name)
                                      /\ td[i].status # "Open"}
    IN IF found = {} THEN 0
       ELSE IF pick = "first" THEN Min(found) ELSE Max(found)

\* frappe.db.exists('ToDo', dict(reference_type, reference_name, status =
\* 'Closed')): the name of one matching record, 0 when there is none; which
\* one of several is for the database to choose (pick)
db_exists_closed(td, doc, pick) ==
    LET found == {i \in DOMAIN td : OfDoc(td[i], doc.doctype, doc.name)
                                      /\ td[i].status = "Closed"}
    IN IF found = {} THEN 0
       ELSE IF pick = "first" THEN Min(found) ELSE Max(found)

-----------------------------------------------------------------------------
(* AssignmentRule: selection of the next user                               *)

\* the index at which the loop of get_user_round_robin finds last_user
\* (0 when the loop runs to its end)
round_robin_index(r) ==
    LET hits == {i \in DOMAIN r.users : r.users[i] = r.last_user}
    IN IF hits = {} THEN 0 ELSE Min(hits)

\* get_user_round_robin without the test of the last candidate before its loop
get_user_round_robin_NoLastTest(r) ==
    IF r.last_user = None
    THEN r.users[1]
    ELSE LET i == round_robin_index(r)
         IN IF i = 0 THEN r.users[1]
            ELSE IF i + 1 \in DOMAIN r.users THEN r.users[i + 1]
            ELSE IndexError

\* get_user_round_robin without the fallback behind its loop
get_user_round_robin_NoFallback(r) ==
    IF r.last_user = None \/ r.last_user = r.users[Len(r.users)]
    THEN r.users[1]
    ELSE LET i == round_robin_index(r)
         IN IF i # 0 /\ i + 1 \in DOMAIN r.users THEN r.users[i + 1]
            ELSE IndexError

get_user_round_robin(r) ==
    IF r.last_user = None \/ r.last_user = r.users[Len(r.users)]
    THEN r.users[1]
    ELSE LET i == round_robin_index(r)
         IN IF i = 0 THEN r.users[1]
            ELSE IF i + 1 \in DOMAIN r.users THEN r.users[i + 1]
            ELSE IndexError

\* sorted(counts, key = count): stable insertion of c behind every entry
\* whose count is not larger
RECURSIVE InsertByCount(_, _)
InsertByCount(sorted, c) ==
    IF sorted = <<>> THEN <<c>>
    ELSE IF Head(sorted).count <= c.count
         THEN <<Head(sorted)>> \o InsertByCount(Tail(sorted), c)
         ELSE <<c>> \o sorted

RECURSIVE SortByCount(_, _)
SortByCount(counts, i) ==
    IF i = 0 THEN <<>>
    ELSE InsertByCount(SortByCount(counts, i - 1), counts[i])

\* get_user_load_balancing counting the work-items of every status
get_user_load_balancing_AnyStatus(r, td) ==
    LET counts == [i \in DOMAIN r.users |->
                     [user |-> r.users[i],
                      count |-> Cardinality({k \in DOMAIN td :
                                   /\ td[k].reference_type = r.document_type
                                   /\ td[k].owner = r.users[i]})]]
        sorted_counts == SortByCount(counts, Len(counts))
    IN sorted_counts[1].user

get_user_load_balancing(r, td) ==
    LET counts == [i \in DOMAIN r.users |->
                     [user |-> r.users[i],
                      count |-> db_count(td, r.document_type, r.users[i])]]
        sorted_counts == SortByCount(counts, Len(counts))
    IN sorted_counts[1].user

get_user(r, td) ==
    IF r.rule = "Round Robin" THEN get_user_round_robin(r)
    ELSE IF r.rule = "Load Balancing" THEN get_user_load_balancing(r, td)
    ELSE None

-----------------------------------------------------------------------------
(* AssignmentRule: conditions and day of the week                          *)

\* frappe.safe_eval of a condition with the document as its scope
frappe_safe_eval(expr, doc) ==
    [raised |-> expr = "1/0", value |-> expr = "True"]

Event(ev, rule, arg) == [ev |-> ev, rule |-> rule, arg |-> arg]

\* safe_eval that takes a condition that raises for a true one
safe_eval_RaisedIsTrue(st, name, fieldname, doc) ==
    IF st.rules[name][fieldname] = "" THEN [st |-> st, ret |-> FALSE]
    ELSE IF frappe_safe_eval(st.rules[name][fieldname], doc).raised
    THEN [st |-> [st EXCEPT !.log = Append(@, Event("msgprint", name, fieldname))],
          ret |-> TRUE]
    ELSE [st |-> st, ret |-> frappe_safe_eval(st.rules[name][fieldname], doc).value]

\* the threaded state st is [todos, rules, log, raised]: the stores as the
\* running call sees them, what it did so far, and whether it has raised
safe_eval(st, name, fieldname, doc) ==
    IF st.rules[name][fieldname] = "" THEN [st |-> st, ret |-> FALSE]
    ELSE IF frappe_safe_eval(st.rules[name][fieldname], doc).raised
    THEN [st |-> [st EXCEPT !.log = Append(@, Event("msgprint", name, fieldname))],
          ret |-> FALSE]
    ELSE [st |-> st, ret |-> frappe_safe_eval(st.rules[name][fieldname], doc).value]

get_assignment_days(r) == r.assignment_days

today(fl, wd) == IF fl.assignment_day # None THEN fl.assignment_day ELSE wd

\* is_rule_not_applicable_today that finds every rule applicable
is_rule_not_applicable_today_AnyDay(r, day) == FALSE

is_rule_not_applicable_today(r, day) ==
    get_assignment_days(r) # <<>> /\ day \notin Range(get_assignment_days(r))

-----------------------------------------------------------------------------
(* AssignmentRule: unassign, assign, close.  An operator named ..._on takes *)
(* the result e = [st, ret] of the call made just before it in the code.    *)

clear_assignment_on(e, name, doc) ==
    IF e.ret
    THEN [st |-> [e.st EXCEPT
                    !.todos = assign_to_clear(@, doc.doctype, doc.name),
                    !.log = Append(@, Event("clear", name, None))],
          ret |-> has_assignments(e.st.todos, doc.doctype, doc.name)]
    ELSE [st |-> e.st, ret |-> FALSE]

clear_assignment(st, name, doc) ==
    clear_assignment_on(safe_eval(st, name, "unassign_condition", doc), name, doc)

\* apply_unassign without the authorship test
apply_unassign_AnyRule(st, name, doc, assignments) ==
    IF st.rules[name].unassign_condition # ""
    THEN clear_assignment(st, name, doc)
    ELSE [st |-> st, ret |-> FALSE]

apply_unassign(st, name, doc, assignments) ==
    IF /\ st.rules[name].unassign_condition # ""
       /\ name \in {assignments[k].assignment_rule : k \in DOMAIN assignments}
    THEN clear_assignment(st, name, doc)
    ELSE [st |-> st, ret |-> FALSE]

close_assignments_on(e, name, doc) ==
    IF e.ret
    THEN [st |-> [e.st EXCEPT
                    !.todos = close_all_assignments(@, doc.doctype, doc.name),
                    !.log = Append(@, Event("close", name, None))],
          ret |-> has_assignments(e.st.todos, doc.doctype, doc.name)]
    ELSE [st |-> e.st, ret |-> FALSE]

close_assignments(st, name, doc) ==
    close_assignments_on(safe_eval(st, name, "close_condition", doc), name, doc)

\* apply_close without the authorship test
apply_close_AnyRule(st, name, doc, assignments) ==
    close_assignments(st, name, doc)

\* "self.close_assignments" in the guard is the bound method, always truthy
apply_close(st, name, doc, assignments) ==
    IF name \in {assignments[k].assignment_rule : k \in DOMAIN assignments}
    THEN close_assignments(st, name, doc)
    ELSE [st |-> st, ret |-> FALSE]

\* do_assignment from assign_to.add on, with the user that get_user returned
do_assignment_to(st, name, doc, cleared, user) ==
    IF user = IndexError THEN [st EXCEPT !.raised = TRUE]
    ELSE [st EXCEPT
            !.todos = assign_to_add(cleared,
                         [assign_to |-> user, doctype |-> doc.doctype,
                          name |-> doc.name, assignment_rule |-> name]),
            !.rules = [@ EXCEPT ![name].last_user = user],
            !.log = Append(@, Event("assign", name, user))]

\* do_assignment from get_user on, with the store that assign_to.clear left
do_assignment_cleared(st, name, doc, cleared) ==
    do_assignment_to(st, name, doc, cleared, get_user(st.rules[name], cleared))

\* do_assignment without the call of assign_to.clear
do_assignment_NoClear(st, name, doc) ==
    do_assignment_cleared(st, name, doc, st.todos)

do_assignment(st, name, doc) ==
    do_assignment_cleared(st, name, doc,
                          assign_to_clear(st.todos, doc.doctype, doc.name))

apply_assign_on(e, name, doc) ==
    IF e.ret
    THEN [st |-> do_assignment(e.st, name, doc), ret |-> TRUE]
    ELSE [st |-> e.st, ret |-> FALSE]

apply_assign(st, name, doc) ==
    apply_assign_on(safe_eval(st, name, "assign_condition", doc), name, doc)

reopen_closed_assignment_at(st, name, todo) ==
    IF todo = 0
    THEN [st |-> [st EXCEPT !.log = Append(@, Event("reopen", name, "none"))],
          ret |-> FALSE]
    ELSE [st |-> [st EXCEPT !.todos = [@ EXCEPT ![todo].status = "Open"],
                             !.log = Append(@, Event("reopen", name, "found"))],
          ret |-> TRUE]

\* reopen_closed_assignment reporting False after it reopened
reopen_closed_assignment_NoStop(st, name, doc, pick) ==
    [st |-> reopen_closed_assignment_at(st, name,
                                        db_exists_closed(st.todos, doc, pick)).st,
     ret |-> FALSE]

reopen_closed_assignment(st, name, doc, pick) ==
    reopen_closed_assignment_at(st, name, db_exists_closed(st.todos, doc, pick))

-----------------------------------------------------------------------------
(* apply                                                                   *)

\* the unassign loop of apply; clear is TRUE only when the loop breaks
RECURSIVE UnassignLoop(_, _, _, _, _, _)
UnassignLoop_on(u, items, i, doc, assignments, day) ==
    IF u.ret THEN [st |-> u.st, clear |-> TRUE]
    ELSE UnassignLoop(u.st, items, i + 1, doc, assignments, day)

UnassignLoop(st, items, i, doc, assignments, day) ==
    IF i > Len(items) THEN [st |-> st, clear |-> FALSE]
    ELSE IF is_rule_not_applicable_today(st.rules[items[i]], day)
    THEN UnassignLoop(st, items, i + 1, doc, assignments, day)
    ELSE UnassignLoop_on(apply_unassign(st, items[i], doc, assignments),
                         items, i, doc, assignments, day)

\* the assign loop of apply
RECURSIVE AssignLoop(_, _, _, _, _)
AssignLoop_on(a, items, i, doc, day) ==
    IF a.ret THEN [st |-> a.st, new_apply |-> TRUE]
    ELSE AssignLoop(a.st, items, i + 1, doc, day)

AssignLoop(st, items, i, doc, day) ==
    IF i > Len(items) THEN [st |-> st, new_apply |-> FALSE]
    ELSE IF is_rule_not_applicable_today(st.rules[items[i]], day)
    THEN AssignLoop(st, items, i + 1, doc, day)
    ELSE AssignLoop_on(apply_assign(st, items[i], doc), items, i, doc, day)

\* the close / reopen loop of apply: for the rule at i, CloseLoop evaluates
\* the close_condition when nothing was assigned, CloseLoop_reopen reopens
\* when it is false, CloseLoop_close calls apply_close
RECURSIVE CloseLoop(_, _, _, _, _, _, _, _)
CloseLoop_closed(c, items, i, doc, assignments, day, new_apply, pick) ==
    IF c.ret THEN c.st
    ELSE CloseLoop(c.st, items, i + 1, doc, assignments, day, new_apply, pick)

CloseLoop_close(st, items, i, doc, assignments, day, new_apply, pick) ==
    CloseLoop_closed(apply_close(st, items[i], doc, assignments),
                     items, i, doc, assignments, day, new_apply, pick)

CloseLoop_reopened(r, items, i, doc, assignments, day, new_apply, pick) ==
    IF r.ret THEN r.st
    ELSE CloseLoop_close(r.st, items, i, doc, assignments, day, new_apply, pick)

CloseLoop_reopen(e, items, i, doc, assignments, day, new_apply, pick) ==
    IF ~e.ret
    THEN CloseLoop_reopened(reopen_closed_assignment(e.st, items[i], doc, pick),
                            items, i, doc, assignments, day, new_apply, pick)
    ELSE CloseLoop_close(e.st, items, i, doc, assignments, day, new_apply, pick)

CloseLoop(st, items, i, doc, assignments, day, new_apply, pick) ==
    IF i > Len(items) THEN st
    ELSE IF is_rule_not_applicable_today(st.rules[items[i]], day)
    THEN CloseLoop(st, items, i + 1, doc, assignments, day, new_apply, pick)
    ELSE IF ~new_apply
    THEN CloseLoop_reopen(safe_eval(st, items[i], "close_condition", doc),
                          items, i, doc, assignments, day, new_apply, pick)
    ELSE CloseLoop_close(st, items, i, doc, assignments, day, new_apply, pick)

\* the unassign phase: u = [st, clear]
unassign_phase(st0, items, doc, day) ==
    IF get_assignments(st0.todos, doc) # <<>>
    THEN UnassignLoop(st0, items, 1, doc, get_assignments(st0.todos, doc), day)
    ELSE [st |-> st0, clear |-> TRUE]

\* the assign phase after the unassign phase u: a = [st, new_apply]
assign_phase(u, items, doc, day) ==
    IF u.clear THEN AssignLoop(u.st, items, 1, doc, day)
    ELSE [st |-> u.st, new_apply |-> FALSE]

\* the close / reopen phase after the assign phase a
close_phase(a, items, doc, day, pick) ==
    IF a.st.raised THEN a.st
    ELSE IF get_assignments(a.st.todos, doc) # <<>>
    THEN CloseLoop(a.st, items, 1, doc, get_assignments(a.st.todos, doc), day,
                   a.new_apply, pick)
    ELSE a.st

\* apply_phases running the assign loop whatever the unassign loop returned
apply_phases_AlwaysAssign(st0, items, doc, day, pick) ==
    close_phase(AssignLoop(unassign_phase(st0, items, doc, day).st, items, 1, doc, day),
                items, doc, day, pick)

\* the three phases of apply, from get_assignments on
apply_phases(st0, items, doc, day, pick) ==
    close_phase(assign_phase(unassign_phase(st0, items, doc, day), items, doc, day),
                items, doc, day, pick)

Result(rs, td, c, outcome, items, log) ==
    [rules |-> rs, todos |-> td, cache |-> c, outcome |-> outcome,
     items |-> items, log |-> log]

\* apply after the phases left st
apply_done(st, m) ==
    Result(st.rules, st.todos, m.cache, IF st.raised THEN "raised" ELSE "done",
           m.items, st.log)

\* apply from the loading of the rule documents on, m = [items, cache] being
\* what get_doctype_map returned
apply_rules(rs, td, m, day, doc, pick) ==
    IF \E k \in DOMAIN m.items : m.items[k] \notin DOMAIN rs
    THEN Result(rs, td, m.cache, "raised", m.items, <<>>)
    ELSE IF m.items = <<>>
    THEN Result(rs, td, m.cache, "norules", m.items, <<>>)
    ELSE apply_done(apply_phases([todos |-> td, rules |-> rs, log |-> <<>>,
                                  raised |-> FALSE], m.items, doc, day, pick), m)

\* apply without the test of the suppression flags
apply_NoSuppression(rs, td, c, fl, wd, missing, doctype, name, pick) ==
    IF ~doc_exists(rs, doctype, name)
    THEN Result(rs, td, c, "raised", <<>>, <<>>)
    ELSE apply_rules(rs, td,
                     get_doctype_map(c, rs, missing, RuleDoctype, doctype,
                                     [document_type |-> doctype, disabled |-> FALSE]),
                     today(fl, wd), [doctype |-> doctype, name |-> name], pick)

\* apply(doc, doctype = doctype, name = name) on the stores rs, td, c
apply(rs, td, c, fl, wd, missing, doctype, name, pick) ==
    IF fl.in_patch \/ fl.in_install \/ fl.in_setup_wizard
    THEN Result(rs, td, c, "skipped", <<>>, <<>>)
    ELSE IF ~doc_exists(rs, doctype, name)
    THEN Result(rs, td, c, "raised", <<>>, <<>>)
    ELSE apply_rules(rs, td,
                     get_doctype_map(c, rs, missing, RuleDoctype, doctype,
                                     [document_type |-> doctype, disabled |-> FALSE]),
                     today(fl, wd), [doctype |-> doctype, name |-> name], pick)

-----------------------------------------------------------------------------
(* Actions                                                                 *)

\* the stores take the result r of an apply call
ApplyEffect(r, doctype, name) ==
    /\ Len(r.todos) <= MaxTodos
    /\ rules' = r.rules
    /\ todos' = r.todos
    /\ cache' = r.cache
    /\ last' = [op |-> "apply", doctype |-> doctype, name |-> name,
                outcome |-> r.outcome, items |-> r.items, log |-> r.log]

\* the document hook: apply(doc) for a stored document
Apply(doctype, name, pick) ==
    /\ doc_exists(rules, doctype, name)
    /\ ApplyEffect(apply(rules, todos, cache, flags, weekday, table_missing,
                         doctype, name, pick), doctype, name)
    /\ UNCHANGED <<flags, weekday, table_missing, queue, running>>

\* a user assigns a document by hand: assign_to.add without assignment_rule
ManualAssign(doctype, name, user) ==
    /\ doc_exists(rules, doctype, name)
    /\ Len(todos) < MaxTodos
    /\ todos' = assign_to_add(todos, [assign_to |-> user, doctype |-> doctype,
                                      name |-> name, assignment_rule |-> None])
    /\ last' = [op |-> "assign_to.add", doctype |-> doctype, name |-> name]
    /\ UNCHANGED <<rules, cache, flags, weekday, table_missing, queue, running>>

\* frappe.utils.get_weekday() moves on
NextDay(day) ==
    /\ day # weekday
    /\ weekday' = day
    /\ last' = [op |-> "get_weekday"]
    /\ UNCHANGED <<rules, todos, cache, flags, table_missing, queue, running>>

-----------------------------------------------------------------------------
(* The engine: a fixed set of rules for Task documents                      *)

NoFlags == [in_patch |-> FALSE, in_install |-> FALSE, in_setup_wizard |-> FALSE,
            assignment_day |-> None]

Rule(document_type, disabled, priority, kind, users, ac, uc, cc, days) ==
    [document_type |-> document_type, disabled |-> disabled, priority |-> priority,
     rule |-> kind, users |-> users, last_user |-> None,
     assign_condition |-> ac, unassign_condition |-> uc, close_condition |-> cc,
     assignment_days |-> days]

EngineConds == {"True", "False"}

EngineRules ==
    {[n \in {"R1", "R2"} |-> IF n = "R1" THEN r1 ELSE r2] :
        r1 \in {Rule("Task", FALSE, 1, "Round Robin", <<"a", "b">>, ac, uc, cc, d) :
                  ac \in EngineConds, uc \in EngineConds, cc \in EngineConds,
                  d \in {<<>>, <<"Monday">>}},
        r2 \in {Rule("Task", FALSE, p, "Load Balancing", <<"b", "a">>, ac, uc, cc, <<>>) :
                  p \in {0, 2},
                  ac \in EngineConds, uc \in EngineConds, cc \in EngineConds}}

Init ==
    /\ rules \in EngineRules
    /\ todos = <<>>
    /\ cache = <<>>
    /\ flags = NoFlags
    /\ weekday = "Monday"
    /\ table_missing = FALSE
    /\ queue = <<>>
    /\ running = <<>>
    /\ last = [op |-> "init"]

Next ==
    \/ \E n \in TaskDocs, pick \in Picks : Apply("Task", n, pick)
    \/ \E n \in TaskDocs, u \in Users : ManualAssign("Task", n, u)
    \/ \E d \in Days : NextDay(d)

Spec == Init /\ [][Next]_vars

-----------------------------------------------------------------------------
(* The rule documents: creations, updates and renames next to apply         *)

\* validate that rejects a day only when it follows itself
validate_AdjacentOnly(r) ==
    \A i \in 1..(Len(get_assignment_days(r)) - 1) :
        get_assignment_days(r)[i] # get_assignment_days(r)[i + 1]

\* validate: no day of assignment_days is repeated
validate(r) ==
    Cardinality(Range(get_assignment_days(r))) = Len(get_assignment_days(r))

\* on_update and after_rename of the rule document called name
on_update(c, name) == clear_doctype_map(c, RuleDoctype, name)

after_rename(c, name) == clear_doctype_map(c, RuleDoctype, name)

CachePriorities == {0, 2}

\* a rule as the cache specification creates it
CacheRule(document_type, priority) ==
    Rule(document_type, FALSE, priority, "Round Robin", <<"a">>,
         "True", "False", "False", <<>>)

\* a new rule document is inserted
InsertRule(name, document_type, priority) ==
    /\ name \notin DOMAIN rules
    /\ Cardinality(DOMAIN rules) < MaxRules
    /\ validate(CacheRule(document_type, priority))
    /\ rules' = [n \in DOMAIN rules \cup {name} |->
                   IF n = name THEN CacheRule(document_type, priority) ELSE rules[n]]
    /\ cache' = on_update(cache, name)
    /\ last' = [op |-> "insert", name |-> name]
    /\ UNCHANGED <<todos, flags, weekday, table_missing, queue, running>>

\* a stored rule document is saved with another value in one of its fields
UpdateRule(name, field, value) ==
    /\ name \in DOMAIN rules
    /\ rules[name][field] # value
    /\ validate([rules[name] EXCEPT ![field] = value])
    /\ rules' = [rules EXCEPT ![name][field] = value]
    /\ cache' = on_update(cache, name)
    /\ last' = [op |-> "save", name |-> name]
    /\ UNCHANGED <<todos, flags, weekday, table_missing, queue, running>>

\* a stored rule document is renamed; the links of the work-items follow
RenameRule(old, new) ==
    /\ old \in DOMAIN rules
    /\ new \notin DOMAIN rules
    /\ rules' = [n \in (DOMAIN rules \ {old}) \cup {new} |->
                   IF n = new THEN rules[old] ELSE rules[n]]
    /\ todos' = [i \in DOMAIN todos |->
                   [todos[i] EXCEPT
                      !.assignment_rule = IF @ = old THEN new ELSE @,
                      !.reference_name = IF todos[i].reference_type = RuleDoctype /\ @ = old
                                         THEN new ELSE @]]
    /\ cache' = after_rename(cache, new)
    /\ last' = [op |-> "rename", name |-> new]
    /\ UNCHANGED <<flags, weekday, table_missing, queue, running>>

InitCache ==
    /\ rules = [n \in {"R1"} |-> CacheRule("Task", 1)]
    /\ todos = <<>>
    /\ cache = <<>>
    /\ flags = NoFlags
    /\ weekday = "Monday"
    /\ table_missing = FALSE
    /\ queue = <<>>
    /\ running = <<>>
    /\ last = [op |-> "init"]

\* the documents that apply is called for next to the rule changes
CacheDocs == {[doctype |-> "Task", name |-> "D1"], [doctype |-> RuleDoctype, name |-> "R1"]}

NextCache ==
    \/ \E d \in CacheDocs, pick \in Picks : Apply(d.doctype, d.name, pick)
    \/ \E t \in DocTypes, p \in CachePriorities : InsertRule("R2", t, p)
    \/ \E n \in RuleNames, t \in DocTypes : UpdateRule(n, "document_type", t)
    \/ \E n \in RuleNames, b \in BOOLEAN : UpdateRule(n, "disabled", b)
    \/ RenameRule("R2", "R3")

SpecCache == InitCache /\ [][NextCache]_vars

-----------------------------------------------------------------------------
(* The selection of the next user, on its own                               *)

\* the candidate lists of a rule: non-empty, a user may occur more than once
UserLists == UNION {[1..n -> Candidates] : n \in 1..MaxUsers}

\* the stores take what do_assignment left in st
DoAssignmentEffect(st, name) ==
    /\ rules' = st.rules
    /\ todos' = st.todos
    /\ last' = [op |-> "do_assignment", name |-> name, raised |-> st.raised]

\* do_assignment of the rule called name for a document, as apply_assign
\* calls it
DoAssignment(name, doctype, docname) ==
    /\ Len(todos) < MaxPicks
    /\ DoAssignmentEffect(do_assignment([todos |-> todos, rules |-> rules,
                                         log |-> <<>>, raised |-> FALSE],
                                        name, [doctype |-> doctype, name |-> docname]),
                          name)
    /\ UNCHANGED <<cache, flags, weekday, table_missing, queue, running>>

InitRoundRobin ==
    /\ rules \in {[n \in {"R1"} |-> Rule("Task", FALSE, 1, "Round Robin", u,
                                         "True", "", "", <<>>)] : u \in UserLists}
    /\ todos = <<>>
    /\ cache = <<>>
    /\ flags = NoFlags
    /\ weekday = "Monday"
    /\ table_missing = FALSE
    /\ queue = <<>>
    /\ running = <<>>
    /\ last = [op |-> "init"]

NextRoundRobin == DoAssignment("R1", "Task", "D1")

SpecRoundRobin == InitRoundRobin /\ [][NextRoundRobin]_vars

\* get_user of the rule called name, on the stores as they are
GetUser(name) ==
    /\ last' = [op |-> "get_user", name |-> name, user |-> get_user(rules[name], todos)]
    /\ UNCHANGED <<rules, todos, cache, flags, weekday, table_missing, queue, running>>

\* a user closes or cancels a work-item by hand
SetStatus(i, status) ==
    /\ i \in DOMAIN todos
    /\ todos[i].status = "Open"
    /\ todos' = [todos EXCEPT ![i].status = status]
    /\ last' = [op |-> "set_status", name |-> i]
    /\ UNCHANGED <<rules, cache, flags, weekday, table_missing, queue, running>>

InitLoadBalancing ==
    /\ rules \in {[n \in {"R1"} |-> Rule("Task", FALSE, 1, "Load Balancing", u,
                                         "True", "", "", <<>>)] : u \in UserLists}
    /\ todos = <<>>
    /\ cache = <<>>
    /\ flags = NoFlags
    /\ weekday = "Monday"
    /\ table_missing = FALSE
    /\ queue = <<>>
    /\ running = <<>>
    /\ last = [op |-> "init"]

NextLoadBalancing ==
    \/ GetUser("R1")
    \/ \E d \in ExistingDocs(rules), u \in Users : ManualAssign(d.doctype, d.name, u)
    \/ \E i \in 1..MaxTodos : SetStatus(i, "Closed")

SpecLoadBalancing == InitLoadBalancing /\ [][NextLoadBalancing]_vars

\* a Round Robin rule whose last_user is whatever an earlier do_assignment
\* stored, the list of users having been edited since
InitPick ==
    /\ rules \in {[n \in {"R1"} |->
                     [Rule("Task", FALSE, 1, "Round Robin", u, "True", "", "", <<>>)
                        EXCEPT !.last_user = l]] :
                   u \in UserLists, l \in Candidates \cup {None}}
    /\ todos = <<>>
    /\ cache = <<>>
    /\ flags = NoFlags
    /\ weekday = "Monday"
    /\ table_missing = FALSE
    /\ queue = <<>>
    /\ running = <<>>
    /\ last = [op |-> "init"]

NextPick == GetUser("R1")

SpecPick == InitPick /\ [][NextPick]_vars

-----------------------------------------------------------------------------
(* validate: a rule document is saved with a list of assignment days        *)

WeekDays == {"Monday", "Tuesday", "Wednesday"}

DayLists == UNION {[1..n -> WeekDays] : n \in 0..MaxDays}

\* the loop of get_repeated after the first i values: diff, the values that
\* were met again, each once, in the order in which they were met again;
\* the result of get_repeated is diff joined by blanks
RECURSIVE get_repeated_diff(_, _)
get_repeated_diff(values, i) ==
    IF i = 0 THEN <<>>
    ELSE IF /\ values[i] \in {values[k] : k \in 1..(i - 1)}
            /\ values[i] \notin Range(get_repeated_diff(values, i - 1))
         THEN Append(get_repeated_diff(values, i - 1), values[i])
         ELSE get_repeated_diff(values, i - 1)

get_repeated(values) == get_repeated_diff(values, Len(values))

\* the rule document called name is saved with the days: validate throws and
\* nothing is written, or the document is written and on_update runs
SaveDays(name, days) ==
    /\ name \in DOMAIN rules
    /\ IF validate([rules[name] EXCEPT !.assignment_days = days])
       THEN /\ rules' = [rules EXCEPT ![name].assignment_days = days]
            /\ cache' = on_update(cache, name)
            /\ last' = [op |-> "save_days", name |-> name, days |-> days,
                        outcome |-> "saved", repeated |-> <<>>]
       ELSE /\ last' = [op |-> "save_days", name |-> name, days |-> days,
                        outcome |-> "ValidationError",
                        repeated |-> get_repeated(days)]
            /\ UNCHANGED <<rules, cache>>
    /\ UNCHANGED <<todos, flags, weekday, table_missing, queue, running>>

InitValidate ==
    /\ rules = [n \in {"R1"} |-> CacheRule("Task", 1)]
    /\ todos = <<>>
    /\ cache = <<>>
    /\ flags = NoFlags
    /\ weekday = "Monday"
    /\ table_missing = FALSE
    /\ queue = <<>>
    /\ running = <<>>
    /\ last = [op |-> "init"]

NextValidate == \E days \in DayLists : SaveDays("R1", days)

SpecValidate == InitValidate /\ [][NextValidate]_vars

-----------------------------------------------------------------------------
(* bulk_apply and the job queue                                             *)

BackgroundOver == 5

\* the inline loop of bulk_apply from the i-th name on; b carries the stores,
\* the names apply was called for, and whether a call has raised (the
\* exception leaves the loop)
RECURSIVE InlineLoop(_, _, _, _, _, _, _, _)
InlineLoop_on(b, r, fl, wd, missing, doctype, docnames, i, pick) ==
    IF r.outcome = "raised"
    THEN [rules |-> r.rules, todos |-> r.todos, cache |-> r.cache,
          applied |-> Append(b.applied, docnames[i]), raised |-> TRUE]
    ELSE InlineLoop([rules |-> r.rules, todos |-> r.todos, cache |-> r.cache,
                     applied |-> Append(b.applied, docnames[i]), raised |-> FALSE],
                    fl, wd, missing, doctype, docnames, i + 1, pick)

InlineLoop(b, fl, wd, missing, doctype, docnames, i, pick) ==
    IF i > Len(docnames) THEN b
    ELSE InlineLoop_on(b, apply(b.rules, b.todos, b.cache, fl, wd, missing,
                                doctype, docnames[i], pick),
                       fl, wd, missing, doctype, docnames, i, pick)

\* the stores take what the inline loop left in b
BulkInlineEffect(b, doctype, docnames) ==
    /\ Len(b.todos) <= MaxTodos
    /\ rules' = b.rules
    /\ todos' = b.todos
    /\ cache' = b.cache
    /\ last' = [op |-> "bulk_apply", doctype |-> doctype, docnames |-> docnames,
                applied |-> b.applied, enqueued |-> <<>>, raised |-> b.raised]

\* bulk_apply(doctype, docnames)
BulkApply(doctype, docnames, pick) ==
    IF Len(docnames) > BackgroundOver
    THEN /\ Len(queue) + Len(docnames) <= MaxQueue
         /\ queue' = queue \o [i \in DOMAIN docnames |->
                                 [doctype |-> doctype, name |-> docnames[i]]]
         /\ last' = [op |-> "bulk_apply", doctype |-> doctype, docnames |-> docnames,
                     applied |-> <<>>, enqueued |-> docnames, raised |-> FALSE]
         /\ UNCHANGED <<rules, todos, cache, flags, weekday, table_missing, running>>
    ELSE /\ BulkInlineEffect(InlineLoop([rules |-> rules, todos |-> todos,
                                         cache |-> cache, applied |-> <<>>,
                                         raised |-> FALSE],
                                        flags, weekday, table_missing,
                                        doctype, docnames, 1, pick),
                             doctype, docnames)
         /\ UNCHANGED <<flags, weekday, table_missing, queue, running>>

\* a worker takes the first job of the queue and runs apply(doc = None,
\* doctype, name); a job that raises fails alone
Worker(pick) ==
    /\ queue # <<>>
    /\ ApplyEffect(apply(rules, todos, cache, flags, weekday, table_missing,
                         Head(queue).doctype, Head(queue).name, pick),
                   Head(queue).doctype, Head(queue).name)
    /\ queue' = Tail(queue)
    /\ UNCHANGED <<flags, weekday, table_missing, running>>

DocNames == TaskDocs \cup MissingDocs

NameLists == UNION {[1..n -> DocNames] : n \in 0..MaxNames}

InitBulk ==
    /\ rules = [n \in {"R1"} |-> CacheRule("Task", 1)]
    /\ todos = <<>>
    /\ cache = <<>>
    /\ flags = NoFlags
    /\ weekday = "Monday"
    /\ table_missing = FALSE
    /\ queue = <<>>
    /\ running = <<>>
    /\ last = [op |-> "init"]

NextBulk ==
    \/ \E docnames \in NameLists : BulkApply("Task", docnames, "first")
    \/ Worker("first")

SpecBulk == InitBulk /\ [][NextBulk]_vars

-----------------------------------------------------------------------------
(* The days of the week: rules with assignment_days, the weekday and the    *)
(* override frappe.flags.assignment_day                                     *)

\* a test sets or resets frappe.flags.assignment_day
SetAssignmentDay(day) ==
    /\ flags.assignment_day # day
    /\ flags' = [flags EXCEPT !.assignment_day = day]
    /\ last' = [op |-> "flags"]
    /\ UNCHANGED <<rules, todos, cache, weekday, table_missing, queue, running>>

DaysRules ==
    {[n \in {"R1", "R2"} |-> IF n = "R1" THEN r1 ELSE r2] :
        r1 \in {Rule("Task", FALSE, 1, "Round Robin", <<"a", "b">>, "True", uc, cc, d) :
                  uc \in EngineConds, cc \in EngineConds,
                  d \in {<<>>, <<"Monday">>, <<"Tuesday">>}},
        r2 \in {Rule("Task", FALSE, 0, "Load Balancing", <<"b", "a">>, "True", uc, cc, d) :
                  uc \in EngineConds, cc \in EngineConds,
                  d \in {<<>>, <<"Tuesday">>}}}

InitDays ==
    /\ rules \in DaysRules
    /\ todos = <<>>
    /\ cache = <<>>
    /\ flags = NoFlags
    /\ weekday = "Monday"
    /\ table_missing = FALSE
    /\ queue = <<>>
    /\ running = <<>>
    /\ last = [op |-> "init"]

NextDays ==
    \/ \E n \in TaskDocs, pick \in Picks : Apply("Task", n, pick)
    \/ \E d \in Days : NextDay(d)
    \/ \E d \in Days \cup {None} : SetAssignmentDay(d)

SpecDays == InitDays /\ [][NextDays]_vars

-----------------------------------------------------------------------------
(* Conditions that are empty or raise                                       *)

CondsRules ==
    {[n \in {"R1", "R2"} |-> IF n = "R1" THEN r1 ELSE r2] :
        r1 \in {Rule("Task", FALSE, 1, "Round Robin", <<"a", "b">>, ac, uc, cc, <<>>) :
                  ac \in CondExprs, uc \in CondExprs, cc \in CondExprs},
        r2 \in {Rule("Task", FALSE, 0, "Load Balancing", <<"b", "a">>, ac, uc, cc, <<>>) :
                  ac \in {"True", "1/0"}, uc \in {"True", "1/0"}, cc \in {"True", "1/0"}}}

InitConds ==
    /\ rules \in CondsRules
    /\ todos = <<>>
    /\ cache = <<>>
    /\ flags = NoFlags
    /\ weekday = "Monday"
    /\ table_missing = FALSE
    /\ queue = <<>>
    /\ running = <<>>
    /\ last = [op |-> "init"]

NextConds ==
    \/ \E n \in TaskDocs, pick \in Picks : Apply("Task", n, pick)
    \/ \E n \in TaskDocs : ManualAssign("Task", n, "a")

SpecConds == InitConds /\ [][NextConds]_vars

-----------------------------------------------------------------------------
(* Assignments made by the engine only: apply and do_assignment, one call   *)
(* after the other                                                          *)

SequentialRules ==
    {[n \in {"R1", "R2"} |-> IF n = "R1" THEN r1 ELSE r2] :
        r1 \in {Rule("Task", FALSE, 1, "Round Robin", <<"a", "b">>, "True", uc, cc, d) :
                  uc \in EngineConds, cc \in EngineConds, d \in {<<>>, <<"Tuesday">>}},
        r2 \in {Rule("Task", FALSE, 0, "Load Balancing", <<"b", "a">>, "True", uc, cc, <<>>) :
                  uc \in EngineConds, cc \in EngineConds}}

InitSequential ==
    /\ rules \in SequentialRules
    /\ todos = <<>>
    /\ cache = <<>>
    /\ flags = NoFlags
    /\ weekday = "Monday"
    /\ table_missing = FALSE
    /\ queue = <<>>
    /\ running = <<>>
    /\ last = [op |-> "init"]

NextSequential ==
    \/ \E n \in TaskDocs, pick \in Picks : Apply("Task", n, pick)
    \/ \E d \in Days : NextDay(d)
    \/ \E r \in DOMAIN rules, n \in TaskDocs : DoAssignment(r, "Task", n)

SpecSequential == InitSequential /\ [][NextSequential]_vars

-----------------------------------------------------------------------------
(* The modes of the host framework: patch, install, setup wizard, and a     *)
(* database whose tables are not created yet                                *)

SuppressionFlags == {"in_patch", "in_install", "in_setup_wizard"}

\* the framework enters or leaves a mode
SetFlag(f, b) ==
    /\ flags[f] # b
    /\ flags' = [flags EXCEPT ![f] = b]
    /\ last' = [op |-> "flags"]
    /\ UNCHANGED <<rules, todos, cache, weekday, table_missing, queue, running>>

\* the table of the rules is dropped or created
SetTableMissing(b) ==
    /\ table_missing # b
    /\ table_missing' = b
    /\ last' = [op |-> "table"]
    /\ UNCHANGED <<rules, todos, cache, flags, weekday, queue, running>>

InitModes ==
    /\ rules = [n \in {"R1"} |-> CacheRule("Task", 1)]
    /\ todos = <<>>
    /\ cache = <<>>
    /\ flags = NoFlags
    /\ weekday = "Monday"
    /\ table_missing = FALSE
    /\ queue = <<>>
    /\ running = <<>>
    /\ last = [op |-> "init"]

NextModes ==
    \/ \E d \in CacheDocs, pick \in Picks : Apply(d.doctype, d.name, pick)
    \/ \E n \in TaskDocs : ManualAssign("Task", n, "a")
    \/ \E f \in SuppressionFlags, b \in BOOLEAN : SetFlag(f, b)
    \/ \E b \in BOOLEAN : SetTableMissing(b)

SpecModes == InitModes /\ [][NextModes]_vars

-----------------------------------------------------------------------------
(* Two apply calls that run at the same time, each for a document of its    *)
(* own.  A call reads the rule documents when it loads them and works on    *)
(* these copies; what it writes are the work-items of its document and, by  *)
(* db_set, the last_user of the rule that assigned.                         *)

ConcurrentDocs == {"D1", "D2"}

\* lists of two or more candidates, no candidate twice
DistinctLists == {u \in UserLists : Len(u) >= 2 /\ Cardinality(Range(u)) = Len(u)}

\* the call for the document looks the rules up and loads the rule documents
Load(name) ==
    /\ name \in DOMAIN running
    /\ running[name].pc = "start"
    /\ running' = [running EXCEPT ![name] =
                      [pc |-> "loaded", rules |-> rules,
                       m |-> get_doctype_map(cache, rules, table_missing, RuleDoctype,
                                             "Task", [document_type |-> "Task",
                                                      disabled |-> FALSE])]]
    /\ cache' = running'[name].m.cache
    /\ last' = [op |-> "load", doctype |-> "Task", name |-> name]
    /\ UNCHANGED <<rules, todos, flags, weekday, table_missing, queue>>

\* the stores take the result r of the phases that a call ran on its copies
\* of the rule documents: the work-items, and the last_user of a rule that
\* assigned
RunEffect(r, name) ==
    /\ todos' = r.todos
    /\ rules' = [n \in DOMAIN rules |->
                   IF \E e \in DOMAIN r.log : r.log[e].ev = "assign" /\ r.log[e].rule = n
                   THEN [rules[n] EXCEPT !.last_user = r.rules[n].last_user]
                   ELSE rules[n]]
    /\ running' = [running EXCEPT ![name].pc = "done"]
    /\ last' = [op |-> "apply", doctype |-> "Task", name |-> name,
                outcome |-> r.outcome, items |-> r.items, log |-> r.log]

\* the call for the document runs its three phases
Run(name, pick) ==
    /\ name \in DOMAIN running
    /\ running[name].pc = "loaded"
    /\ RunEffect(apply_rules(running[name].rules, todos, running[name].m,
                             today(flags, weekday),
                             [doctype |-> "Task", name |-> name], pick), name)
    /\ UNCHANGED <<cache, flags, weekday, table_missing, queue>>

InitConcurrent ==
    /\ rules \in {[n \in {"R1"} |->
                     [Rule("Task", FALSE, 1, "Round Robin", u, "True", "False", "False", <<>>)
                        EXCEPT !.last_user = l]] :
                   u \in DistinctLists, l \in Candidates \cup {None}}
    /\ rules["R1"].last_user \in Range(rules["R1"].users) \cup {None}
    /\ todos = <<>>
    /\ cache = <<>>
    /\ flags = NoFlags
    /\ weekday = "Monday"
    /\ table_missing = FALSE
    /\ queue = <<>>
    /\ running = [d \in ConcurrentDocs |-> [pc |-> "start", rules |-> <<>>, m |-> <<>>]]
    /\ last = [op |-> "init"]

NextConcurrent ==
    \/ \E d \in ConcurrentDocs : Load(d)
    \/ \E d \in ConcurrentDocs, pick \in Picks : Run(d, pick)

SpecConcurrent == InitConcurrent /\ [][NextConcurrent]_vars

-----------------------------------------------------------------------------
(* Vocabulary of the properties                                            *)

\* the condition evaluates true on the document
CondTrue(expr, doc) ==
    expr # "" /\ ~frappe_safe_eval(expr, doc).raised /\ frappe_safe_eval(expr, doc).value

ApplicableOn(r, day) == r.assignment_days = <<>> \/ day \in Range(r.assignment_days)

Authors(assignments) == {assignments[k].assignment_rule : k \in DOMAIN assignments}

LastDoc == [doctype |-> last.doctype, name |-> last.name]

EventsOf(log, kinds) == {k \in DOMAIN log : log[k].ev \in kinds}

\* positions in the rule list of the rules that are applicable on the day,
\* whose condition in the field is true and that authored one of the assignments
Eligible(items, rs, field, assignments, doc, day) ==
    {k \in DOMAIN items : /\ ApplicableOn(rs[items[k]], day)
                          /\ CondTrue(rs[items[k]][field], doc)
                          /\ items[k] \in Authors(assignments)}

ApplicablePositions(items, rs, day) ==
    {k \in DOMAIN items : ApplicableOn(rs[items[k]], day)}

-----------------------------------------------------------------------------
\* C4: in the unassign phase the existing assignments of the document are
\* cleared only by a rule that is applicable today, has a true
\* unassign_condition and is named by one of the fetched assignments; it is
\* the first such rule of the list that clears, so a rule with a true
\* unassign_condition that authored none of them clears nothing and the next
\* rule is evaluated.
C4_UnassignOnlyByAuthor ==
    [][(last'.op = "apply" /\ last'.outcome = "done") =>
        LET doc == [doctype |-> last'.doctype, name |-> last'.name]
            assignments == get_assignments(todos, doc)
            clearers == Eligible(last'.items, rules, "unassign_condition",
                                 assignments, doc, today(flags, weekday))
            cleared == \E k \in DOMAIN assignments :
                          todos'[assignments[k].name].status = "Cancelled"
            events == EventsOf(last'.log, {"clear"})
        IN /\ cleared <=> clearers # {}
           /\ events # {} <=> clearers # {}
           /\ \A e \in events : last'.log[e].rule = last'.items[Min(clearers)]
           /\ cleared => \A k \in DOMAIN assignments :
                            todos'[assignments[k].name].status = "Cancelled"]_vars

\* C4 witness: the first rule of the list has a true unassign_condition and is
\* applicable, yet the assignments were cleared by the second rule
C4_Witness ==
    /\ last.op = "apply" /\ last.outcome = "done" /\ Len(last.items) = 2
    /\ rules[last.items[1]].unassign_condition = "True"
    /\ ApplicableOn(rules[last.items[1]], today(flags, weekday))
    /\ \E e \in EventsOf(last.log, {"clear"}) : last.log[e].rule = last.items[2]

\* C5: when the document has a non-Cancelled assignment at the start of apply
\* and no rule clears in the unassign phase, the assign phase does not run:
\* no assignment is created, no owner and no last_user changes.
C5_NoAssignWithoutClear ==
    [][(/\ last'.op = "apply" /\ last'.outcome = "done"
        /\ get_assignments(todos, [doctype |-> last'.doctype, name |-> last'.name]) # <<>>
        /\ EventsOf(last'.log, {"clear"}) = {})
       => /\ Len(todos') = Len(todos)
          /\ \A i \in DOMAIN todos :
                /\ todos'[i].owner = todos[i].owner
                /\ todos'[i].assignment_rule = todos[i].assignment_rule
                /\ OfDoc(todos'[i], todos[i].reference_type, todos[i].reference_name)
                /\ todos'[i].status = "Cancelled" <=> todos[i].status = "Cancelled"
          /\ \A n \in DOMAIN rules : rules'[n].last_user = rules[n].last_user
          /\ EventsOf(last'.log, {"assign"}) = {}]_vars

\* C5 witness: an apply on an assigned document cleared and assigned nothing
\* although an applicable rule has a true assign_condition
C5_Witness ==
    /\ last.op = "apply" /\ last.outcome = "done"
    /\ has_assignments(todos, last.doctype, last.name)
    /\ EventsOf(last.log, {"clear", "assign"}) = {}
    /\ \E k \in DOMAIN last.items :
          /\ ApplicableOn(rules[last.items[k]], today(flags, weekday))
          /\ rules[last.items[k]].assign_condition = "True"

\* the close / reopen phase of the last apply ran without a new assignment and
\* the first applicable rule of the list has a close_condition that is false
C6_Case ==
    /\ last.op = "apply" /\ last.outcome = "done"
    /\ has_assignments(todos, last.doctype, last.name)
    /\ EventsOf(last.log, {"assign"}) = {}
    /\ ApplicablePositions(last.items, rules, today(flags, weekday)) # {}
    /\ ~CondTrue(rules[last.items[Min(ApplicablePositions(last.items, rules,
                                        today(flags, weekday)))]].close_condition,
                 LastDoc)

C6_FirstRule ==
    last.items[Min(ApplicablePositions(last.items, rules, today(flags, weekday)))]

\* C6 as stated: in that case apply attempts a reopen at the first applicable
\* rule and the phase stops there whether or not a Closed assignment was found:
\* no other rule closes or reopens in the call.
C6_StopsAtFirstRule ==
    C6_Case =>
        /\ \E e \in EventsOf(last.log, {"reopen"}) : last.log[e].rule = C6_FirstRule
        /\ \A e \in EventsOf(last.log, {"reopen", "close"}) :
              (last.log[e].ev = "close" \/ last.log[e].arg = "found")
                  => last.log[e].rule = C6_FirstRule

\* C6 amended: in that case apply attempts a reopen at the first applicable
\* rule; when a Closed assignment was found it is reopened and the phase stops
\* there (nothing else is closed or reopened in the call); when none was found
\* the evaluation goes on, and the first applicable lower rule with a true
\* close_condition that authored an assignment closes.
C6_StopsOnlyWhenReopened ==
    C6_Case =>
        LET events == EventsOf(last.log, {"reopen", "close"})
            closers == Eligible(last.items, rules, "close_condition",
                                get_assignments(todos, LastDoc), LastDoc,
                                today(flags, weekday))
        IN /\ events # {}
           /\ last.log[Min(events)].ev = "reopen"
           /\ last.log[Min(events)].rule = C6_FirstRule
           /\ last.log[Min(events)].arg = "found" => events = {Min(events)}
           /\ last.log[Min(events)].arg = "none" =>
                 /\ closers # {} =>
                       \E e \in events : /\ last.log[e].ev = "close"
                                         /\ last.log[e].rule = last.items[Min(closers)]
                 /\ closers = {} => EventsOf(last.log, {"close"}) = {}

\* C6 witness: the reopen at the first rule found a Closed assignment and
\* stopped the phase before a lower rule that would have closed
C6_Witness ==
    /\ C6_Case
    /\ \E e \in EventsOf(last.log, {"reopen"}) : last.log[e].arg = "found"
    /\ Eligible(last.items, rules, "close_condition",
                get_assignments(todos, LastDoc), LastDoc, today(flags, weekday)) # {}

\* C7: every Open-to-Closed transition made by apply is made by a rule that is
\* applicable today, has a true close_condition and is named by one of the
\* assignments fetched after the assign phase; the closing rule is the first
\* such rule of the list, it leaves no assignment of the document Open, and
\* nothing is evaluated after it.
C7_CloseOnlyByAuthor ==
    [][(last'.op = "apply" /\ last'.outcome = "done") =>
        LET doc == [doctype |-> last'.doctype, name |-> last'.name]
            refetched == get_assignments(todos', doc)
            closers == Eligible(last'.items, rules, "close_condition", refetched,
                                doc, today(flags, weekday))
            events == EventsOf(last'.log, {"close"})
            closed == \E i \in DOMAIN todos :
                         todos[i].status = "Open" /\ todos'[i].status = "Closed"
        IN /\ closed => events # {}
           /\ events # {} =>
                 /\ closers # {}
                 /\ \A e \in events :
                       /\ last'.log[e].rule = last'.items[Min(closers)]
                       /\ e = Len(last'.log)
                 /\ \A i \in DOMAIN todos' :
                       OfDoc(todos'[i], doc.doctype, doc.name) => todos'[i].status # "Open"
           /\ \A i \in DOMAIN todos :
                 (todos[i].status = "Open" /\ todos'[i].status = "Closed")
                     => OfDoc(todos[i], doc.doctype, doc.name)]_vars

\* C7 witness: an apply closed an assignment through the second rule of the
\* list while the first rule is applicable and has a true close_condition
C7_Witness ==
    /\ last.op = "apply" /\ last.outcome = "done" /\ Len(last.items) = 2
    /\ \E e \in EventsOf(last.log, {"close"}) : last.log[e].rule = last.items[2]
    /\ rules[last.items[1]].close_condition = "True"
    /\ ApplicableOn(rules[last.items[1]], today(flags, weekday))
    /\ \E i \in DOMAIN todos : OfDoc(todos[i], last.doctype, last.name)
                                  /\ todos[i].status = "Closed"

-----------------------------------------------------------------------------
\* C1: for a document without a non-Cancelled assignment and with an enabled
\* rule of its document type that is applicable today and has a true
\* assign_condition, apply creates exactly one assignment for the document; it
\* names the highest-priority such rule, its owner is the user that rule's
\* get_user selects, that rule's last_user is this owner afterwards, and no
\* other rule's last_user changes.
C1_AssignsByBestRule ==
    [][(last'.op = "apply") =>
        LET doc == [doctype |-> last'.doctype, name |-> last'.name]
            matching == {n \in DOMAIN rules :
                           /\ rules[n].document_type = doc.doctype
                           /\ ~rules[n].disabled
                           /\ ApplicableOn(rules[n], today(flags, weekday))
                           /\ CondTrue(rules[n].assign_condition, doc)}
            new == todos'[Len(todos')]
        IN (get_assignments(todos, doc) = <<>> /\ matching # {}) =>
              /\ Len(todos') = Len(todos) + 1
              /\ \A i \in DOMAIN todos :
                    OfDoc(todos'[i], todos[i].reference_type, todos[i].reference_name)
              /\ OfDoc(new, doc.doctype, doc.name)
              /\ new.assignment_rule \in matching
              /\ \A n \in matching :
                    rules[n].priority <= rules[new.assignment_rule].priority
              /\ new.owner = get_user(rules[new.assignment_rule], todos)
              /\ rules'[new.assignment_rule].last_user = new.owner
              /\ \A n \in DOMAIN rules \ {new.assignment_rule} :
                    rules'[n].last_user = rules[n].last_user]_vars

\* C8: the rule list that apply obtains for a document of type T is exactly
\* the stored enabled rules of document_type T, in descending priority.
C8_FreshRuleList ==
    last.op = "apply" =>
        /\ Range(last.items) = {n \in DOMAIN rules :
                                  rules[n].document_type = last.doctype
                                  /\ ~rules[n].disabled}
        /\ Len(last.items) = Cardinality(Range(last.items))
        /\ \A i, j \in DOMAIN last.items :
              i < j => rules[last.items[i]].priority >= rules[last.items[j]].priority

-----------------------------------------------------------------------------
\* C2: starting from last_user = none, the k-th user that do_assignment of a
\* Round Robin rule selects is the candidate at position ((k-1) mod n)+1 of
\* its list of n candidates.
C2_RoundRobinCycles ==
    \A k \in DOMAIN todos :
        todos[k].owner = rules["R1"].users[((k - 1) % Len(rules["R1"].users)) + 1]

\* C3: get_user_load_balancing returns a candidate whose number of Open
\* work-items of the rule's document_type is minimal among the candidates,
\* and the first candidate of the list with that number.
C3_LeastLoadedFirst ==
    last.op = "get_user" =>
        LET r == rules[last.name]
            load(u) == Cardinality({i \in DOMAIN todos :
                          /\ todos[i].reference_type = r.document_type
                          /\ todos[i].owner = u
                          /\ todos[i].status = "Open"})
            first == Min({i \in DOMAIN r.users : r.users[i] = last.user})
        IN /\ last.user \in Range(r.users)
           /\ \A i \in DOMAIN r.users : load(last.user) <= load(r.users[i])
           /\ \A i \in 1..(first - 1) : load(last.user) < load(r.users[i])

\* C3 witness: the selected candidate is not the first of the list, a later
\* candidate has the same number of Open work-items, and a candidate has a
\* work-item that does not count (not Open or of another document type)
C3_Witness ==
    /\ last.op = "get_user"
    /\ rules[last.name].users[1] # last.user
    /\ \E i, j \in DOMAIN rules[last.name].users :
          /\ i < j
          /\ rules[last.name].users[i] = last.user
          /\ rules[last.name].users[j] # last.user
          /\ db_count(todos, "Task", rules[last.name].users[j])
                = db_count(todos, "Task", last.user)
    /\ \E i \in DOMAIN todos :
          /\ todos[i].owner = last.user
          /\ todos[i].status # "Open" \/ todos[i].reference_type # "Task"

-----------------------------------------------------------------------------
\* C9: bulk_apply with more than 5 names enqueues one apply task per name and
\* runs apply inline for none; with 5 or fewer names it runs apply inline, in
\* the order of the list, once per name and enqueues nothing.
C9_BulkThreshold ==
    last.op = "bulk_apply" =>
        IF Len(last.docnames) > 5
        THEN last.enqueued = last.docnames /\ last.applied = <<>>
        ELSE last.applied = last.docnames /\ last.enqueued = <<>>

\* C10: in bulk_apply a failure while processing one name does not affect the
\* others: every other name of the batch is still processed (inline or
\* enqueued), the names behind the failing one included.
C10_FailureIsolated ==
    (last.op = "bulk_apply" /\ \E i \in DOMAIN last.docnames :
                                  ~doc_exists(rules, last.doctype, last.docnames[i]))
        => \A i \in DOMAIN last.docnames :
              \/ i \in DOMAIN last.applied /\ last.applied[i] = last.docnames[i]
              \/ i \in DOMAIN last.enqueued /\ last.enqueued[i] = last.docnames[i]

-----------------------------------------------------------------------------
\* C11: a rule whose assignment_days is non-empty and does not contain today
\* (frappe.flags.assignment_day when set, else the weekday) is skipped by
\* apply in all three phases: it clears, creates, closes and reopens nothing
\* and its last_user is unchanged.  A rule whose assignment_days is empty or
\* contains today takes part: on a document without assignments the first such
\* rule of the list with a true assign_condition assigns.
C11_InapplicableRuleSkipped ==
    [][(last'.op = "apply" /\ last'.outcome = "done") =>
        LET day == IF flags.assignment_day # "" THEN flags.assignment_day ELSE weekday
            skipped == {n \in DOMAIN rules :
                          /\ rules[n].assignment_days # <<>>
                          /\ day \notin Range(rules[n].assignment_days)}
            taking == {k \in DOMAIN last'.items : last'.items[k] \notin skipped}
            doc == [doctype |-> last'.doctype, name |-> last'.name]
        IN /\ \A n \in skipped :
                 /\ \A e \in DOMAIN last'.log : last'.log[e].rule # n
                 /\ rules'[n].last_user = rules[n].last_user
                 /\ \A i \in DOMAIN todos' \ DOMAIN todos :
                       todos'[i].assignment_rule # n
           /\ (/\ get_assignments(todos, doc) = <<>>
               /\ taking # {}
               /\ rules[last'.items[Min(taking)]].assign_condition = "True")
                 => \E e \in EventsOf(last'.log, {"assign"}) :
                       last'.log[e].rule = last'.items[Min(taking)]]_vars

\* C11 witness: frappe.flags.assignment_day overrides a weekday that is among
\* the days of the first rule of the list, the first rule did nothing and
\* the second rule, whose assignment_days is empty, assigned
C11_Witness ==
    /\ last.op = "apply" /\ last.outcome = "done" /\ Len(last.items) = 2
    /\ flags.assignment_day # ""
    /\ weekday \in Range(rules[last.items[1]].assignment_days)
    /\ flags.assignment_day \notin Range(rules[last.items[1]].assignment_days)
    /\ rules[last.items[2]].assignment_days = <<>>
    /\ \A e \in DOMAIN last.log : last.log[e].rule = last.items[2]
    /\ \E e \in EventsOf(last.log, {"assign"}) : last.log[e].rule = last.items[2]

-----------------------------------------------------------------------------
\* the condition raises when it is evaluated
CondRaises(expr, doc) == expr # "" /\ frappe_safe_eval(expr, doc).raised

\* the rules with "False" in the place of every condition that is empty or
\* raises
WithFalse(rs, doc) ==
    [n \in DOMAIN rs |->
        [rs[n] EXCEPT
           !.assign_condition = IF CondTrue(@, doc) THEN @ ELSE "False",
           !.unassign_condition = IF CondTrue(@, doc) THEN @ ELSE "False",
           !.close_condition = IF CondTrue(@, doc) THEN @ ELSE "False"]]

\* C12: a condition that raises never makes apply fail; apply warns and
\* treats it as false, as it treats an empty condition: apply leaves the
\* assignments and every last_user as it would with "False" in the place of
\* the condition and does the same things in the same order, the warnings
\* aside, so the rule does not assign / unassign / close on that condition and
\* the remaining rules and phases are evaluated.  Every warning names a
\* condition that raises, and a first rule whose assign_condition raises on an
\* unassigned document is warned about first.
C12_RaisingConditionIsFalse ==
    [][(last'.op = "apply") =>
        LET doc == [doctype |-> last'.doctype, name |-> last'.name]
            warnings == EventsOf(last'.log, {"msgprint"})
        IN /\ last'.outcome = "done"
           /\ \E pick \in Picks :
                 LET quiet == apply(WithFalse(rules, doc), todos, cache, flags, weekday,
                                    table_missing, doc.doctype, doc.name, pick)
                 IN /\ todos' = quiet.todos
                    /\ \A n \in DOMAIN rules : rules'[n].last_user = quiet.rules[n].last_user
                    /\ SelectSeq(last'.log, LAMBDA e : e.ev # "msgprint") = quiet.log
           /\ \A e \in warnings :
                 CondRaises(rules[last'.log[e].rule][last'.log[e].arg], doc)
           /\ (/\ get_assignments(todos, doc) = <<>>
               /\ CondRaises(rules[last'.items[1]].assign_condition, doc))
                 => last'.log[1] = Event("msgprint", last'.items[1], "assign_condition")
           /\ \A e \in DOMAIN last'.log :
                 /\ last'.log[e].ev = "assign"
                       => CondTrue(rules[last'.log[e].rule].assign_condition, doc)
                 /\ last'.log[e].ev = "clear"
                       => CondTrue(rules[last'.log[e].rule].unassign_condition, doc)
                 /\ last'.log[e].ev = "close"
                       => CondTrue(rules[last'.log[e].rule].close_condition, doc)]_vars

\* C12 witness: the assign_condition of the first rule raised with a warning,
\* the second rule went on to assign, and the close phase went on to close
C12_Witness ==
    /\ last.op = "apply" /\ last.outcome = "done" /\ Len(last.items) = 2
    /\ \E e1, e2, e3 \in DOMAIN last.log :
          /\ e1 < e2 /\ e2 < e3
          /\ last.log[e1] = Event("msgprint", last.items[1], "assign_condition")
          /\ last.log[e2].ev = "assign" /\ last.log[e2].rule = last.items[2]
          /\ last.log[e3] = Event("close", last.items[2], None)

-----------------------------------------------------------------------------
\* the non-Cancelled assignments of a document
Live(td, doctype, name) ==
    {i \in DOMAIN td : OfDoc(td[i], doctype, name) /\ td[i].status # "Cancelled"}

\* C13: when every assignment was created by the engine, after any sequence
\* of apply and do_assignment calls every document has at most one
\* non-Cancelled assignment, and directly after do_assignment(doc), called on
\* its own or by apply, the only non-Cancelled assignment of the document is
\* the one just created, which names the assigning rule.
C13_ClearBeforeCreate ==
    /\ \A d \in ExistingDocs(rules) : Cardinality(Live(todos, d.doctype, d.name)) <= 1
    /\ \A n \in TaskDocs :
          /\ (last.op = "do_assignment" /\ ~last.raised) =>
                /\ Live(todos, "Task", n) = {Len(todos)}
                /\ todos[Len(todos)].assignment_rule = last.name
                /\ todos[Len(todos)].owner = rules[last.name].last_user
                /\ todos[Len(todos)].status = "Open"
          /\ (last.op = "apply" /\ last.name = n) =>
                \A e \in EventsOf(last.log, {"assign"}) :
                   /\ Live(todos, "Task", n) = {Len(todos)}
                   /\ todos[Len(todos)].assignment_rule = last.log[e].rule
                   /\ todos[Len(todos)].owner = last.log[e].arg

\* C13 witness: do_assignment ran for a document that had an Open assignment
\* of the other rule, which is Cancelled now
C13_Witness ==
    /\ last.op = "do_assignment" /\ ~last.raised
    /\ Len(todos) >= 3
    /\ todos[Len(todos) - 1].status = "Cancelled"
    /\ todos[Len(todos) - 1].assignment_rule # last.name
    /\ \E i \in DOMAIN todos : i < Len(todos) /\ todos[i].assignment_rule = last.name

-----------------------------------------------------------------------------
\* C14: a Cancelled assignment never changes again, whatever apply does; in an
\* apply call a record goes from Closed to Open only in a reopen step that
\* found it, and then it is the only record that changes, and from Open to
\* Closed only in a close step; the assignments that apply fetches contain no
\* Cancelled record, so a document whose assignments are all Cancelled is
\* treated as unassigned: nothing is cleared, closed before an assignment or
\* reopened for it.
C14_CancelledIsFinal ==
    [][/\ Len(todos') >= Len(todos)
       /\ \A i \in DOMAIN todos : todos[i].status = "Cancelled" => todos'[i] = todos[i]
       /\ (last'.op = "apply" /\ last'.outcome = "done") =>
             LET doc == [doctype |-> last'.doctype, name |-> last'.name]
                 fetched == get_assignments(todos, doc)
                 reopened == {i \in DOMAIN todos : /\ todos[i].status = "Closed"
                                                    /\ todos'[i].status = "Open"}
                 closed == {i \in DOMAIN todos : /\ todos[i].status = "Open"
                                                  /\ todos'[i].status = "Closed"}
                 found == {e \in EventsOf(last'.log, {"reopen"}) :
                              last'.log[e].arg = "found"}
             IN /\ \A k \in DOMAIN fetched : todos[fetched[k].name].status # "Cancelled"
                /\ reopened # {} <=> found # {}
                /\ found # {} => /\ Cardinality(reopened) = 1
                                 /\ \A i \in DOMAIN todos \ reopened : todos'[i] = todos[i]
                                 /\ todos' = [i \in DOMAIN todos |->
                                                IF i \in reopened
                                                THEN [todos[i] EXCEPT !.status = "Open"]
                                                ELSE todos[i]]
                /\ closed # {} => EventsOf(last'.log, {"close"}) # {}
                /\ Live(todos, doc.doctype, doc.name) = {} =>
                       /\ EventsOf(last'.log, {"clear"}) = {}
                       /\ found = {}
                       /\ \A i \in DOMAIN todos : todos'[i] = todos[i]]_vars

\* C14 witness: an apply reopened a Closed assignment of a document that also
\* has a Cancelled one
C14_Witness ==
    /\ last.op = "apply" /\ last.outcome = "done"
    /\ \E e \in EventsOf(last.log, {"reopen"}) : last.log[e].arg = "found"
    /\ \E i, j \in DOMAIN todos :
          /\ OfDoc(todos[i], last.doctype, last.name) /\ todos[i].status = "Cancelled"
          /\ OfDoc(todos[j], last.doctype, last.name) /\ todos[j].status = "Open"

-----------------------------------------------------------------------------
\* the rules that would assign the document: enabled, of its type, applicable
\* on the day, with a true assign_condition
WouldAssign(rs, doc, day) ==
    {n \in DOMAIN rs : /\ rs[n].document_type = doc.doctype
                       /\ ~rs[n].disabled
                       /\ ApplicableOn(rs[n], day)
                       /\ CondTrue(rs[n].assign_condition, doc)}

\* C15: while frappe.flags.in_patch, in_install or in_setup_wizard is set,
\* apply returns at once: it reads no rules and leaves every assignment, every
\* rule with its last_user and the cache of the rule lookup unchanged.
C15_SkippedWhileSuppressed ==
    [][(last'.op = "apply" /\ \E f \in SuppressionFlags : flags[f]) =>
          /\ last'.outcome = "skipped"
          /\ last'.items = <<>>
          /\ last'.log = <<>>
          /\ todos' = todos
          /\ rules' = rules
          /\ cache' = cache]_vars

\* C15 witness: apply was skipped for an unassigned document that a stored
\* rule would assign, with nothing cached
C15_Witness ==
    /\ last.op = "apply" /\ last.outcome = "skipped"
    /\ \E f \in SuppressionFlags : flags[f]
    /\ ~table_missing
    /\ cache = <<>>
    /\ Live(todos, last.doctype, last.name) = {}
    /\ WouldAssign(rules, LastDoc, today(flags, weekday)) # {}

\* C18: when get_doctype_map misses the cache and the query of the store
\* fails because the table is missing, it returns the empty list and writes
\* nothing to the cache; apply finds no rules and returns, leaving every
\* assignment and every rule as it was.
C18_MissingTableIsNoRules ==
    [][(/\ last'.op = "apply"
        /\ \A f \in SuppressionFlags : ~flags[f]
        /\ table_missing
        /\ ~hexists(cache, last'.doctype)) =>
          /\ last'.outcome = "norules"
          /\ last'.items = <<>>
          /\ cache' = cache
          /\ todos' = todos
          /\ rules' = rules]_vars

\* C18 witness: apply found no rules, the table missing and nothing cached,
\* for an unassigned document that a stored rule would assign
C18_Witness ==
    /\ last.op = "apply" /\ last.outcome = "norules"
    /\ \A f \in SuppressionFlags : ~flags[f]
    /\ table_missing
    /\ cache = <<>>
    /\ Live(todos, last.doctype, last.name) = {}
    /\ WouldAssign(rules, LastDoc, today(flags, weekday)) # {}

-----------------------------------------------------------------------------
\* C16: when last_user is set and does not occur in the non-empty list of
\* candidates, get_user_round_robin returns the first candidate and raises no
\* error.
C16_UnknownLastUserGivesFirst ==
    (/\ last.op = "get_user"
     /\ rules[last.name].last_user # ""
     /\ \A i \in DOMAIN rules[last.name].users :
           rules[last.name].users[i] # rules[last.name].last_user)
        => /\ last.user # IndexError
           /\ last.user = rules[last.name].users[1]

\* C16 witness: get_user ran for a list of several different candidates none
\* of which is last_user
C16_Witness ==
    /\ last.op = "get_user"
    /\ rules[last.name].last_user \in Candidates \ Range(rules[last.name].users)
    /\ Cardinality(Range(rules[last.name].users)) >= 2
    /\ last.user = rules[last.name].users[1]

-----------------------------------------------------------------------------
\* C17: a save of a rule is rejected by validate exactly when some weekday
\* occurs more than once in its assignment_days; a rejected rule is not
\* written, the error names the repeated days, and a rule whose days are
\* pairwise distinct, the empty list included, is written as given.
C17_RepeatedDayRejected ==
    [][(last'.op = "save_days") =>
        LET days == last'.days
            repeated == {days[i] : i \in {j \in DOMAIN days :
                                             \E k \in DOMAIN days : k # j /\ days[k] = days[j]}}
        IN /\ last'.outcome = "ValidationError" <=> repeated # {}
           /\ last'.outcome = "saved" <=> repeated = {}
           /\ repeated # {} => /\ rules' = rules
                               /\ Range(last'.repeated) = repeated
           /\ repeated = {} => rules'[last'.name].assignment_days = days]_vars

\* C17 witness: a save with a day repeated behind another day was rejected and
\* the stored rule kept its two distinct days
C17_Witness ==
    /\ last.op = "save_days" /\ last.outcome = "ValidationError"
    /\ Len(last.days) = 3 /\ last.days[1] = last.days[3] /\ last.days[1] # last.days[2]
    /\ Len(rules[last.name].assignment_days) = 2
    /\ last.repeated = <<last.days[1]>>

-----------------------------------------------------------------------------
\* C19: after get_doctype_map('Assignment Rule', N, filters) has run for the
\* document type N of apply, the cache holds the returned list under the entry
\* that the next lookup for N reads, so that a following lookup for N is
\* answered from the cache without a query of the store.
C19_MissStoresUnderLookupKey ==
    (last.op = "apply" /\ last.outcome \in {"done", "norules"}) =>
        /\ hexists(cache, last.doctype)
        /\ json_loads(hget(cache, last.doctype)) = last.items

-----------------------------------------------------------------------------
\* C20: when an apply call closed the assignments of a document through a
\* rule whose close_condition is true, the next apply call for the document,
\* with the rules and the day as they are and no unassign_condition true,
\* leaves those assignments Closed.
C20_ClosingIsStable ==
    [][(/\ last.op = "apply" /\ last.outcome = "done"
        /\ EventsOf(last.log, {"close"}) # {}
        /\ last'.op = "apply" /\ last'.outcome = "done"
        /\ last'.doctype = last.doctype /\ last'.name = last.name
        /\ \A n \in DOMAIN rules : ~CondTrue(rules[n].unassign_condition, LastDoc))
       => \A i \in DOMAIN todos :
             (OfDoc(todos[i], last.doctype, last.name) /\ todos[i].status = "Closed")
                 => todos'[i].status = "Closed"]_vars

-----------------------------------------------------------------------------
\* C21: when two apply calls have run at the same time for two unassigned
\* documents matched by one Round Robin rule with two or more distinct
\* candidates, whatever the interleaving, the two new assignments have two
\* different owners that follow each other in the rule's list and the rule's
\* last_user is the later of the two.
C21_NoTurnLost ==
    (/\ DOMAIN running = ConcurrentDocs
     /\ \A d \in ConcurrentDocs : running[d].pc = "done") =>
        LET users == rules["R1"].users
            next(u) == users[(Min({i \in DOMAIN users : users[i] = u}) % Len(users)) + 1]
            owner(d) == todos[Min(Live(todos, "Task", d))].owner
        IN /\ \A d \in ConcurrentDocs : Cardinality(Live(todos, "Task", d)) = 1
           /\ \E d1, d2 \in ConcurrentDocs :
                 /\ d1 # d2
                 /\ owner(d1) # owner(d2)
                 /\ owner(d2) = next(owner(d1))
                 /\ rules["R1"].last_user = owner(d2)

-----------------------------------------------------------------------------
\* C22: for every non-empty list of candidates, repeated candidates included,
\* and every last_user, get_user_round_robin reads no position behind the end
\* of the list: it returns a candidate, and when its loop finds last_user,
\* first at index i, then i is not the last index and the candidate at i + 1
\* is returned.
C22_NoReadPastEnd ==
    (last.op = "get_user") =>
        LET r == rules[last.name]
            hits == {i \in DOMAIN r.users : r.users[i] = r.last_user}
        IN /\ last.user # IndexError
           /\ last.user \in Range(r.users)
           /\ (r.last_user # "" /\ r.last_user # r.users[Len(r.users)] /\ hits # {})
                 => /\ Min(hits) < Len(r.users)
                    /\ last.user = r.users[Min(hits) + 1]

\* C22 witness: the loop found last_user, a candidate that occurs twice, the
\* second time just before the end of the list
C22_Witness ==
    /\ last.op = "get_user"
    /\ Len(rules[last.name].users) = 3
    /\ rules[last.name].last_user = rules[last.name].users[1]
    /\ rules[last.name].last_user = rules[last.name].users[2]
    /\ rules[last.name].last_user # rules[last.name].users[3]
    /\ last.user = rules[last.name].users[2]

====
